---- MODULE Spec2Model ----
(***************************************************************************)
(* Model of the customer-service chat backend: the intent classifier, the  *)
(* retriever, the session store and the chat orchestrator.                 *)
(*                                                                         *)
(* Text is modelled as a sequence of characters, one string per character. *)
(* A Chinese character is written as its pinyin with the tone number       *)
(* ("ding4" "dan1" is the word for "order"), an ASCII character as itself. *)
(* Python's None for an optional string is the empty sequence.             *)
(* Confidences are percentages (0.95 is 95).                               *)
(***************************************************************************)
EXTENDS Integers, Sequences, FiniteSets, TLC

VARIABLES
    cls,          \* the last IntentClassifier.classify call: input, generator, result
    rag,          \* the last retriever call: operation, inputs, result
    sessions,     \* SessionManager.sessions: session id -> session
    uuids,        \* how many uuid4 ids have been generated
    now,          \* time.time()
    session_ttl,  \* SessionManager.session_ttl
    llm_ready,    \* LLMManager._llm is not None
    calls,        \* the process_chat activations: position and locals
    lookup        \* the last get_chat_history request: what it met and returned

clsVars == <<cls>>
ragVars == <<rag>>
chatVars == <<sessions, uuids, now, session_ttl, llm_ready, calls, lookup>>
vars == <<cls, rag, sessions, uuids, now, session_ttl, llm_ready, calls, lookup>>

None == <<>>

Min(a, b) == IF a < b THEN a ELSE b

(***************************************************************************)
(* Python string primitives                                                *)
(***************************************************************************)

\* sub in s
Contains(s, sub) ==
    \E i \in 1..(Len(s) - Len(sub) + 1) : SubSeq(s, i, i + Len(sub) - 1) = sub

Digits == {"0", "1", "2", "3", "4", "5", "6", "7", "8", "9"}

\* the length of the longest run of \d characters of s that starts at position i
DigitRun(s, i) ==
    LET ends == {n \in 0..(Len(s) - i + 1) : \A j \in i..(i + n - 1) : s[j] \in Digits}
    IN CHOOSE n \in ends : \A m \in ends : m <= n

Whitespace == {" ", "\n", "\t"}

\* str.strip()
Strip(s) ==
    LET keep == {i \in 1..Len(s) : s[i] \notin Whitespace}
    IN IF keep = {} THEN <<>>
       ELSE LET lo == CHOOSE i \in keep : \A j \in keep : i <= j
                hi == CHOOSE i \in keep : \A j \in keep : j <= i
            IN SubSeq(s, lo, hi)

LowerChar(c) ==
    CASE c = "A" -> "a" [] c = "D" -> "d" [] c = "E" -> "e" [] c = "G" -> "g"
      [] c = "I" -> "i" [] c = "O" -> "o" [] c = "P" -> "p" [] c = "R" -> "r"
      [] c = "S" -> "s" [] c = "T" -> "t" [] c = "U" -> "u"
      [] OTHER -> c

\* str.lower()
Lower(s) == [i \in 1..Len(s) |-> LowerChar(s[i])]

(***************************************************************************)
(* Regular expressions of the shape  <prefix>\d{min,max}                   *)
(***************************************************************************)

\* the pattern pat matches at position i of s
PatternAt(pat, s, i) ==
    /\ i + Len(pat.prefix) - 1 <= Len(s)
    /\ SubSeq(s, i, i + Len(pat.prefix) - 1) = pat.prefix
    /\ DigitRun(s, i + Len(pat.prefix)) >= pat.min

\* re.search(pat, s): the leftmost match, its digits taken greedily; None if none
ReSearch(pat, s) ==
    LET at == {i \in 1..Len(s) : PatternAt(pat, s, i)}
    IN IF at = {} THEN None
       ELSE LET i == CHOOSE k \in at : \A m \in at : k <= m
                d == i + Len(pat.prefix)
            IN SubSeq(s, i, d - 1 + Min(DigitRun(s, d), pat.max))

(***************************************************************************)
(* The generator (LLMManager) as the classifier and the composer see it    *)
(***************************************************************************)

\* outcomes of one generator invocation other than a text answer, written as
\* one-token sequences so that they can be compared with texts
Raises == <<"<raises>">>       \* the invocation raises an exception
NonText == <<"<non-text>">>    \* the response's content is not a string

AnswerProduct == <<"p", "r", "o", "d", "u", "c", "t", "_", "i", "n", "q", "u", "i", "r", "y">>
AnswerOrder == <<" ", "O", "r", "d", "e", "r", "_", "S", "t", "a", "t", "u", "s", "\n">>
AnswerReturn == <<"r", "e", "t", "u", "r", "n", "_", "r", "e", "f", "u", "n", "d">>
AnswerRefund == <<"r", "e", "f", "u", "n", "d">>
AnswerGeneral == <<"g", "e", "n", "e", "r", "a", "l", "_", "i", "n", "q", "u", "i", "r", "y">>
AnswerBoth == <<"p", "r", "o", "d", "u", "c", "t", " ", "o", "r", "d", "e", "r">>
AnswerOther == <<"o", "t", "h", "e", "r">>

Answers ==
    {AnswerProduct, AnswerOrder, AnswerReturn, AnswerRefund, AnswerGeneral,
     AnswerBoth, AnswerOther}

Outcomes == Answers \cup {Raises, NonText}

\* "sorry, the AI service is temporarily unavailable, please try again later."
ApologyUnavailable ==
    <<"bao4", "qian4", ",", "A", "I", "fu2", "wu4", "zan4", "shi2", "bu4", "ke3",
      "yong4", ",", "qing3", "shao1", "hou4", "zai4", "shi4", ".">>

\* "sorry, I cannot handle your request, please try again later."
ApologyDirect ==
    <<"bao4", "qian4", ",", "wo3", "wu2", "fa3", "chu3", "li3", "nin2", "de",
      "qing3", "qiu2", ",", "qing3", "shao1", "hou4", "zai4", "shi4", ".">>

\* direct_query letting the failure of the generator through to its caller
direct_query_propagating(ready, invoke) ==
    IF ~ready THEN [value |-> Raises, invoked |-> 0]
    ELSE IF invoke = Raises THEN [value |-> Raises, invoked |-> 1]
    ELSE [value |-> invoke, invoked |-> 1]

\* LLMManager.direct_query: the synchronous fallback. `ready` is _llm is not None,
\* `invoke` the outcome of _llm.invoke. The result is what the caller receives:
\* a text, or NonText when the response's content is not a string.
direct_query(ready, invoke) ==
    IF ~ready THEN [value |-> ApologyUnavailable, invoked |-> 0]
    ELSE IF invoke = Raises THEN [value |-> ApologyDirect, invoked |-> 1]
    ELSE [value |-> invoke, invoked |-> 1]

(***************************************************************************)
(* IntentClassifier                                                        *)
(***************************************************************************)

PRODUCT_INQUIRY == "product_inquiry"
ORDER_STATUS == "order_status"
RETURN_REFUND == "return_refund"
GENERAL_INQUIRY == "general_inquiry"
UNKNOWN == "unknown"

IntentType == {PRODUCT_INQUIRY, ORDER_STATUS, RETURN_REFUND, GENERAL_INQUIRY, UNKNOWN}

order_keywords ==
    << <<"ding4", "dan1">>, <<"bao1", "guo3">>, <<"fa1", "huo4">>, <<"wu4", "liu2">>,
       <<"kuai4", "di4">>, <<"pei4", "song4">>, <<"song4", "da2">>, <<"zhui1", "zong1">>,
       <<"cha2", "xun2">>, <<"ding4", "dan1", "hao4">>,
       <<"wu4", "liu2", "xin4", "xi1">> >>

has_order_keywords(query) ==
    \E k \in 1..Len(order_keywords) : Contains(query, order_keywords[k])

\* r'OD\d{10,12}' with one digit more required
order_pattern_strict == [prefix |-> <<"O", "D">>, min |-> 11, max |-> 12]

\* r'OD\d{10,12}'
order_pattern == [prefix |-> <<"O", "D">>, min |-> 10, max |-> 12]

\* _contains_order_id answering True only with an order keyword in the query
_contains_order_id_needs_keyword(query) ==
    LET has_order_id == ReSearch(order_pattern, query) # None
    IN has_order_id /\ has_order_keywords(query)

_contains_order_id(query) ==
    LET has_order_id == ReSearch(order_pattern, query) # None
    IN has_order_id /\ (has_order_keywords(query) \/ Contains(query, <<"O", "D">>))

\* the mapping of lines 118-134 with order tested before product
MapIntent_order_first(intent_text) ==
    IF Contains(intent_text, <<"o", "r", "d", "e", "r">>)
        THEN [intent |-> ORDER_STATUS, confidence |-> 90]
    ELSE IF Contains(intent_text, <<"p", "r", "o", "d", "u", "c", "t">>)
        THEN [intent |-> PRODUCT_INQUIRY, confidence |-> 90]
    ELSE IF \/ Contains(intent_text, <<"r", "e", "t", "u", "r", "n">>)
            \/ Contains(intent_text, <<"r", "e", "f", "u", "n", "d">>)
        THEN [intent |-> RETURN_REFUND, confidence |-> 90]
    ELSE IF Contains(intent_text, <<"g", "e", "n", "e", "r", "a", "l">>)
        THEN [intent |-> GENERAL_INQUIRY, confidence |-> 90]
    ELSE [intent |-> UNKNOWN, confidence |-> 50]

\* the mapping of the normalised answer to an intent, lines 117-134
MapIntent(intent_text) ==
    IF Contains(intent_text, <<"p", "r", "o", "d", "u", "c", "t">>)
        THEN [intent |-> PRODUCT_INQUIRY, confidence |-> 90]
    ELSE IF Contains(intent_text, <<"o", "r", "d", "e", "r">>)
        THEN [intent |-> ORDER_STATUS, confidence |-> 90]
    ELSE IF \/ Contains(intent_text, <<"r", "e", "t", "u", "r", "n">>)
            \/ Contains(intent_text, <<"r", "e", "f", "u", "n", "d">>)
        THEN [intent |-> RETURN_REFUND, confidence |-> 90]
    ELSE IF Contains(intent_text, <<"g", "e", "n", "e", "r", "a", "l">>)
        THEN [intent |-> GENERAL_INQUIRY, confidence |-> 90]
    ELSE [intent |-> UNKNOWN, confidence |-> 50]

\* _classify_intent with the generator behaving as gen = [ainvoke, invoke]:
\* the outcome of llm.ainvoke and, if the fallback runs, of _llm.invoke.
\* invoked counts the generator invocations made.
_classify_intent(query, ready, gen) ==
    LET first == IF ready THEN gen.ainvoke ELSE Raises   \* the llm property raises
        n1 == IF ready THEN 1 ELSE 0
    IN IF first \in Answers
       THEN MapIntent(Lower(Strip(first))) @@ [invoked |-> n1]
       ELSE \* an exception, or .strip() on a content that is no string: line 112
            LET d == direct_query(ready, gen.invoke)
            IN IF d.value = NonText
               THEN [intent |-> UNKNOWN, confidence |-> 0, invoked |-> n1 + d.invoked]
               ELSE MapIntent(Lower(Strip(d.value))) @@ [invoked |-> n1 + d.invoked]

\* classify: [intent, confidence, message (present or not), invoked]
classify(query, ready, gen) ==
    IF _contains_order_id(query)
    THEN [intent |-> ORDER_STATUS, confidence |-> 95, message |-> FALSE, invoked |-> 0]
    ELSE _classify_intent(query, ready, gen) @@ [message |-> FALSE]

(***************************************************************************)
(* Queries                                                                 *)
(***************************************************************************)

\* the order identifiers the queries refer to: 13, 10, 12 and 10 digits
IdFixture == <<"O", "D", "2", "0", "2", "3", "1", "1", "0", "5", "1", "2", "5", "6", "7">>
IdTen == <<"O", "D", "2", "0", "2", "4", "0", "1", "0", "1", "0", "0">>
IdTwelve == <<"O", "D", "2", "0", "2", "4", "0", "2", "0", "2", "0", "2", "0", "2">>
IdAbsent == <<"O", "D", "9", "9", "9", "9", "9", "9", "9", "9", "9", "9">>

\* "my order number is OD2023110512567, can you check the logistics status?"
QueryScenario ==
    <<"wo3", "de", "ding4", "dan1", "hao4", "shi4">> \o IdFixture
        \o <<",", "cha2", "wu4", "liu2">>
\* "query OD2024010100"
QueryTen == <<"cha2", "xun2">> \o IdTen
\* "order OD202402020202 has it been delivered"
QueryTwelve == <<"ding4", "dan1">> \o IdTwelve \o <<"song4", "da2", "le", "ma">>
\* an identifier alone, and one after a word that is no order keyword
QueryBareId == IdTwelve
QueryNoKeyword == <<"ni3", "hao3">> \o IdTen
\* a well-formed identifier of no order on record
QueryAbsent == <<"ding4", "dan1">> \o IdAbsent
\* nine digits, lower-case prefix, no identifier at all
QueryShort == <<"ding4", "dan1", "O", "D", "1", "2", "3", "4", "5", "6", "7", "8", "9">>
QueryLower == <<"ding4", "dan1", "o", "d", "2", "0", "2", "4", "0", "1", "0", "1", "0", "0">>
QueryOrderWord == <<"ding4", "dan1", "zhuang4", "tai4">>
QueryHello == <<"ni3", "hao3">>

Queries ==
    {QueryScenario, QueryTen, QueryTwelve, QueryBareId, QueryNoKeyword, QueryAbsent,
     QueryShort, QueryLower, QueryOrderWord, QueryHello}

(***************************************************************************)
(* Documents and vector index partitions                                   *)
(***************************************************************************)

\* a metadata key that is not set
NoField == "<absent>"

\* langchain Document. The page content is a text known by its name, with what
\* _process_documents reads of it: whether it starts with "{" and ends with
\* "}", and whether json.loads accepts it.
Document(text, braced, parses, source, type, category) ==
    [py |-> "Document",
     page_content |-> [text |-> text, braced |-> braced, parses |-> parses],
     metadata |-> [source |-> source, type |-> type, category |-> category]]

DocFaqA == Document("faq-a", FALSE, FALSE, "faq.json", "faq", "points")
DocFaqB == Document("faq-b", FALSE, FALSE, "faq.json", "faq", NoField)
DocFaqJson == Document("faq-json", TRUE, TRUE, "faq.json", "faq", NoField)
DocProduct == Document("product-a", TRUE, TRUE, "product.json", NoField, NoField)
DocBraces == Document("braces", TRUE, FALSE, "notes.txt", NoField, NoField)
DocPlain == Document("plain", FALSE, FALSE, NoField, NoField, NoField)
\* the same content as DocFaqA, from another file
DocCopy == Document("faq-a", FALSE, FALSE, "copy.json", NoField, NoField)

Documents == {DocFaqA, DocFaqB, DocFaqJson, DocProduct, DocBraces, DocPlain, DocCopy}

\* every sequence over S of length at most n
SeqUpTo(S, n) == UNION {[1..k -> S] : k \in 0..n}

Take(s, n) == IF n <= 0 THEN <<>> ELSE SubSeq(s, 1, Min(n, Len(s)))

\* VectorStoreManager.similarity_search: the list of the k nearest documents of
\* the partition, [] when the underlying search raises. `ranked` is the
\* partition's documents in the order of their distance to the query.
similarity_search(ranked, fails, k) ==
    IF fails \/ k < 0 THEN <<>> ELSE Take(ranked, k)

\* the trigger tokens of _create_enhanced_query: points, order, refund, return
TokenPoints == <<"ji1", "fen1">>
TokenOrder == <<"ding4", "dan1">>
TokenRefund == <<"tui4", "kuan3">>
TokenReturn == <<"tui4", "huo4">>

\* the synonym terms appended for each, with the separating blanks
TermsPoints ==
    <<" ", "gou4", "wu4", "ji1", "fen1", " ", "hui4", "yuan2", "ji1", "fen1",
      " ", "ji1", "fen1", "shi3", "yong4", " ", "ji1", "fen1", "gui1", "ze2">>
TermsOrder ==
    <<" ", "ding4", "dan1", "zhuang4", "tai4", " ", "wu4", "liu2",
      " ", "pei4", "song4", " ", "fa1", "huo4">>
TermsRefund ==
    <<" ", "tui4", "huo4", "zheng4", "ce4", " ", "tui4", "kuan3", "liu2", "cheng2",
      " ", "shou4", "hou4">>

\* _create_enhanced_query with the order token tested before the points token
_create_enhanced_query_order_first(query) ==
    IF Len(query) < 10
    THEN IF Contains(query, TokenOrder) THEN query \o TermsOrder
         ELSE IF Contains(query, TokenPoints) THEN query \o TermsPoints
         ELSE IF Contains(query, TokenRefund) \/ Contains(query, TokenReturn)
              THEN query \o TermsRefund
         ELSE query
    ELSE query

\* VectorStoreManager._create_enhanced_query; len() counts characters
_create_enhanced_query(query) ==
    IF Len(query) < 10
    THEN IF Contains(query, TokenPoints) THEN query \o TermsPoints
         ELSE IF Contains(query, TokenOrder) THEN query \o TermsOrder
         ELSE IF Contains(query, TokenRefund) \/ Contains(query, TokenReturn)
              THEN query \o TermsRefund
         ELSE query
    ELSE query

(***************************************************************************)
(* RAGRetriever                                                            *)
(***************************************************************************)

\* int(digits) for a sequence of digit characters
DigitValue(c) ==
    CASE c = "0" -> 0 [] c = "1" -> 1 [] c = "2" -> 2 [] c = "3" -> 3 [] c = "4" -> 4
      [] c = "5" -> 5 [] c = "6" -> 6 [] c = "7" -> 7 [] c = "8" -> 8 [] c = "9" -> 9

RECURSIVE ToInt(_)
ToInt(ds) ==
    IF ds = <<>> THEN 0 ELSE 10 * ToInt(SubSeq(ds, 1, Len(ds) - 1)) + DigitValue(ds[Len(ds)])

\* [int(x) for x in re.findall(r'\d+', text)]: the maximal digit runs, in order
RECURSIVE FindAllInts(_, _)
FindAllInts(text, i) ==
    IF i > Len(text) THEN <<>>
    ELSE IF text[i] \notin Digits THEN FindAllInts(text, i + 1)
    ELSE LET n == DigitRun(text, i)
         IN <<ToInt(SubSeq(text, i, i + n - 1))>> \o FindAllInts(text, i + n)

\* lines 233-239: the 0-based indices named by the answer, in range, each once
RECURSIVE ParseIndices(_, _, _)
ParseIndices(numbers, n, indices) ==
    IF numbers = <<>> THEN indices
    ELSE LET idx == Head(numbers) - 1
             seen == \E k \in 1..Len(indices) : indices[k] = idx
         IN ParseIndices(Tail(numbers), n,
                IF 0 <= idx /\ idx < n /\ ~seen THEN Append(indices, idx) ELSE indices)

\* lines 245-247: the indices the answer left out, appended in their order
RECURSIVE AppendMissing(_, _, _)
AppendMissing(indices, i, n) ==
    IF i >= n THEN indices
    ELSE AppendMissing(
            IF \E k \in 1..Len(indices) : indices[k] = i THEN indices ELSE Append(indices, i),
            i + 1, n)

\* _rerank_documents without the loop of lines 245-247
_rerank_documents_no_append(docs, ready, answer) ==
    IF docs = <<>> THEN <<>>
    ELSE IF ~ready \/ answer = Raises THEN docs
    ELSE LET indices == ParseIndices(FindAllInts(answer, 1), Len(docs), <<>>)
         IN [k \in 1..Len(indices) |-> docs[indices[k] + 1]]

\* _rerank_documents: `answer` is the generator's text, or Raises
_rerank_documents(docs, ready, answer) ==
    IF docs = <<>> THEN <<>>
    ELSE IF ~ready \/ answer = Raises THEN docs
    ELSE LET parsed == ParseIndices(FindAllInts(answer, 1), Len(docs), <<>>)
             indices == AppendMissing(parsed, 0, Len(docs))
             kept == SelectSeq(indices, LAMBDA idx : idx < Len(docs))
         IN [k \in 1..Len(kept) |-> docs[kept[k] + 1]]

\* metadata.get("source", "unknown source")
SourceOf(doc) ==
    IF doc.metadata.source = NoField THEN "unknown-source" ELSE doc.metadata.source

\* the record emitted were the JSON test made before the FAQ test
ProcessOne_json_first(doc) ==
    IF doc.page_content.braced /\ doc.page_content.parses
    THEN [type |-> "json", content |-> doc.page_content.text, category |-> NoField]
    ELSE IF doc.metadata.type = "faq"
    THEN [type |-> "faq", content |-> doc.page_content.text,
          category |-> doc.metadata.category]
    ELSE [type |-> "content", content |-> doc.page_content.text, category |-> NoField]

\* the record _process_documents emits for one document, lines 276-316
ProcessOne(doc) ==
    IF doc.metadata.type = "faq"
    THEN [type |-> "faq", content |-> doc.page_content.text,
          category |-> doc.metadata.category]
    ELSE IF doc.page_content.braced /\ doc.page_content.parses
    THEN [type |-> "json", content |-> doc.page_content.text, category |-> NoField]
    ELSE [type |-> "content", content |-> doc.page_content.text, category |-> NoField]

\* _process_documents with every source appended, seen before or not
RECURSIVE _process_documents_all_sources(_)
_process_documents_all_sources(docs) ==
    IF docs = <<>> THEN [documents |-> <<>>, sources |-> <<>>]
    ELSE LET d == docs[Len(docs)]
             rest == _process_documents_all_sources(SubSeq(docs, 1, Len(docs) - 1))
         IN [documents |-> Append(rest.documents, ProcessOne(d)),
             sources |-> Append(rest.sources, SourceOf(d))]

\* _process_documents: (processed_docs, sources)
RECURSIVE _process_documents(_)
_process_documents(docs) ==
    IF docs = <<>> THEN [documents |-> <<>>, sources |-> <<>>]
    ELSE LET d == docs[Len(docs)]
             rest == _process_documents(SubSeq(docs, 1, Len(docs) - 1))
             seen == \E k \in 1..Len(rest.sources) : rest.sources[k] = SourceOf(d)
         IN [documents |-> Append(rest.documents, ProcessOne(d)),
             sources |-> IF seen THEN rest.sources ELSE Append(rest.sources, SourceOf(d))]

\* RAGRetriever.vector_stores: the partition of an intent
Partitions == {"product_knowledge", "order_knowledge", "return_refund_knowledge",
               "general_knowledge"}

vector_stores(intent) ==
    CASE intent = PRODUCT_INQUIRY -> "product_knowledge"
      [] intent = ORDER_STATUS -> "order_knowledge"
      [] intent = RETURN_REFUND -> "return_refund_knowledge"
      [] intent = GENERAL_INQUIRY -> "general_knowledge"
      [] intent = UNKNOWN -> "general_knowledge"

\* the keyword table of _get_related_intents, in the order the dict is walked
related_keywords ==
    << [keyword |-> <<"ji1", "fen1">>, intents |-> <<GENERAL_INQUIRY, PRODUCT_INQUIRY>>],
       [keyword |-> <<"ding4", "dan1">>, intents |-> <<ORDER_STATUS>>],
       [keyword |-> <<"fa1", "huo4">>, intents |-> <<ORDER_STATUS>>],
       [keyword |-> <<"wu4", "liu2">>, intents |-> <<ORDER_STATUS>>],
       [keyword |-> <<"tui4", "huo4">>, intents |-> <<RETURN_REFUND>>],
       [keyword |-> <<"tui4", "kuan3">>, intents |-> <<RETURN_REFUND>>],
       [keyword |-> <<"shang1", "pin3">>, intents |-> <<PRODUCT_INQUIRY>>],
       [keyword |-> <<"chan3", "pin3">>, intents |-> <<PRODUCT_INQUIRY>>] >>

InSeq(x, s) == \E k \in 1..Len(s) : s[k] = x

\* the inner loop, lines 164-166
RECURSIVE AddIntents(_, _, _)
AddIntents(intents, primary_intent, related) ==
    IF intents = <<>> THEN related
    ELSE AddIntents(Tail(intents), primary_intent,
            IF Head(intents) # primary_intent /\ ~InSeq(Head(intents), related)
            THEN Append(related, Head(intents)) ELSE related)

\* the outer loop, lines 162-166
RECURSIVE MatchKeywords(_, _, _, _)
MatchKeywords(k, primary_intent, query, related) ==
    IF k > Len(related_keywords) THEN related
    ELSE MatchKeywords(k + 1, primary_intent, query,
            IF Contains(query, related_keywords[k].keyword)
            THEN AddIntents(related_keywords[k].intents, primary_intent, related)
            ELSE related)

_get_related_intents(primary_intent, query) ==
    LET related == MatchKeywords(1, primary_intent, query, <<>>)
    IN IF ~InSeq(GENERAL_INQUIRY, related) /\ primary_intent # GENERAL_INQUIRY
       THEN Append(related, GENERAL_INQUIRY) ELSE related

\* iterating a Document (a pydantic model) yields its (field, value) pairs
DocumentFields == <<"id", "metadata", "page_content", "type">>

FieldTuples(doc) ==
    [k \in 1..Len(DocumentFields) |-> [py |-> "tuple", field |-> DocumentFields[k], of |-> doc]]

\* what  `found_docs, _ = <list>`  followed by  docs.extend(found_docs)  adds to
\* docs inside its try block: unpacking a list whose length is not 2 raises
\* ValueError, which is caught; of two Documents the first is bound, and
\* extending by it appends its (field, value) pairs.
UnpackAndExtend(found) ==
    IF Len(found) # 2 THEN <<>> ELSE FieldTuples(found[1])

\* the loop of lines 126-132 over the related intents from position i
RECURSIVE BackfillRelated(_, _, _, _, _)
BackfillRelated(related, i, primary_intent, k, env) ==
    IF i > Len(related) THEN <<>>
    ELSE LET intent == related[i]
             part == vector_stores(intent)
             here == IF intent # primary_intent
                     THEN UnpackAndExtend(
                            similarity_search(env.stores[part], env.fails[part], k \div 2))
                     ELSE <<>>
         IN here \o BackfillRelated(related, i + 1, primary_intent, k, env)

\* _retrieve_from_multiple_stores. env.stores[p] is partition p's documents as
\* ranked for the query, env.fails[p] whether its search raises.
_retrieve_from_multiple_stores(query, primary_intent, k, env) ==
    LET general ==
            IF primary_intent # GENERAL_INQUIRY
            THEN UnpackAndExtend(
                    similarity_search(env.stores["general_knowledge"],
                                      env.fails["general_knowledge"], k \div 2))
            ELSE <<>>
        related == _get_related_intents(primary_intent, query)
    IN general \o BackfillRelated(related, 1, primary_intent, k, env)

\* a call of similarity_search on a partition with limit k
Search(partition, k) == [partition |-> partition, k |-> k]

\* the searches the loop of lines 126-132 issues, from position i on; every
\* IntentType is a key of vector_stores
RECURSIVE RelatedSearches(_, _, _, _)
RelatedSearches(related, i, primary_intent, k) ==
    IF i > Len(related) THEN <<>>
    ELSE (IF related[i] # primary_intent
          THEN <<Search(vector_stores(related[i]), k \div 2)>> ELSE <<>>)
         \o RelatedSearches(related, i + 1, primary_intent, k)

\* the searches _retrieve_from_multiple_stores issues, in order: line 121, then
\* line 129 for each related intent
BackfillSearches(query, primary_intent, k) ==
    (IF primary_intent # GENERAL_INQUIRY
     THEN <<Search("general_knowledge", k \div 2)>> ELSE <<>>)
    \o RelatedSearches(_get_related_intents(primary_intent, query), 1, primary_intent, k)

\* lines 188-191
RECURSIVE MergeInto(_, _)
MergeInto(merged_docs, secondary_docs) ==
    IF secondary_docs = <<>> THEN merged_docs
    ELSE LET doc == Head(secondary_docs)
             seen == \E k \in 1..Len(merged_docs) :
                        merged_docs[k].page_content.text = doc.page_content.text
         IN MergeInto(IF seen THEN merged_docs ELSE Append(merged_docs, doc),
                      Tail(secondary_docs))

\* _merge_and_deduplicate_docs: reading page_content of anything but a Document
\* raises AttributeError
_merge_and_deduplicate_docs(primary_docs, secondary_docs) ==
    IF \E k \in 1..Len(primary_docs \o secondary_docs) :
            (primary_docs \o secondary_docs)[k].py # "Document"
    THEN [raised |-> TRUE, docs |-> <<>>]
    ELSE [raised |-> FALSE, docs |-> MergeInto(primary_docs, secondary_docs)]

RAGResult(documents, sources, query) ==
    [documents |-> documents, sources |-> sources, query |-> query]

\* retrieve from line 71 on, for `docs` a list of Documents
retrieve_from_docs(docs, query, intent, top_k, env) ==
    LET short == 10 * Len(docs) < 6 * top_k
        backup_docs == IF short THEN _retrieve_from_multiple_stores(query, intent, top_k, env)
                       ELSE <<>>
        merged == IF backup_docs # <<>>
                  THEN _merge_and_deduplicate_docs(docs, backup_docs)
                  ELSE [raised |-> FALSE, docs |-> docs]
        cut == IF backup_docs # <<>> THEN Take(merged.docs, top_k) ELSE docs
        ranked == IF Len(cut) >= 3 THEN _rerank_documents(cut, env.ready, env.answer)
                  ELSE cut
        out == _process_documents(ranked)
    IN IF merged.raised THEN RAGResult(<<>>, <<>>, query)
       ELSE RAGResult(out.documents, out.sources, query)

\* retrieve as it would be with line 69 binding the list of documents, every
\* backfill search adding its documents, and line 78 missing
retrieve_untruncated(query, intent, top_k, env) ==
    LET part == vector_stores(intent)
        docs == similarity_search(env.stores[part], env.fails[part], top_k)
        general == similarity_search(env.stores["general_knowledge"],
                                     env.fails["general_knowledge"], top_k \div 2)
        order == similarity_search(env.stores["order_knowledge"],
                                   env.fails["order_knowledge"], top_k \div 2)
        merged == IF 10 * Len(docs) < 6 * top_k
                  THEN MergeInto(docs, general \o order) ELSE docs
        out == _process_documents(merged)
    IN RAGResult(out.documents, out.sources, query)

\* Python values as the unpacking of line 69 meets them: a list, a Document
PyList(items) == [py |-> "list", value |-> items]
PyDocument(doc) == [py |-> "Document", value |-> <<doc>>]

\* `docs, sources = found` for the list found: a list of any length but 2
\* raises ValueError, of length 2 its two elements are bound
Unpack(found) ==
    IF Len(found) # 2
    THEN [raised |-> TRUE, docs |-> PyList(<<>>), sources |-> PyList(<<>>)]
    ELSE [raised |-> FALSE, docs |-> PyDocument(found[1]),
          sources |-> PyDocument(found[2])]

\* retrieve. similarity_search returns a list, which line 69 unpacks into two
\* names: a list of any length but 2 raises ValueError; of two Documents the
\* first is bound to docs, and len(docs) at line 72 raises TypeError. Either
\* way the handler of lines 93-100 answers.
retrieve(query, intent, top_k, env) ==
    LET part == vector_stores(intent)
        found == similarity_search(env.stores[part], env.fails[part], top_k)
    IN IF Unpack(found).raised
       THEN RAGResult(<<>>, <<>>, query)      \* ValueError at line 69
       ELSE RAGResult(<<>>, <<>>, query)      \* TypeError at line 72

(***************************************************************************)
(* SessionManager                                                          *)
(***************************************************************************)

\* str(uuid.uuid4()), in the order generated
UuidNames ==
    <<"uuid-1", "uuid-2", "uuid-3", "uuid-4", "uuid-5", "uuid-6", "uuid-7", "uuid-8",
      "uuid-9", "uuid-10", "uuid-11", "uuid-12", "uuid-13", "uuid-14", "uuid-15",
      "uuid-16">>

\* line 35: not session_id or session_id == "undefined"
\* ids that are no strings, None and the integer 7, written as tokens
NonStringIds == {"<None>", "<7>"}

\* the test of line 35 that takes only the empty string for invalid
InvalidId_empty_only(session_id) == session_id = ""

InvalidId(session_id) ==
    session_id = "" \/ session_id = "undefined" \/ session_id \in NonStringIds

NewSession(id, t) ==
    [id |-> id, created_at |-> t, last_active |-> t, history |-> <<>>,
     metadata |-> NoField]

\* _cleanup_expired_sessions at time t
_cleanup_expired_sessions(ss, t, ttl) ==
    LET expired_sessions == {id \in DOMAIN ss : t - ss[id].last_active > ttl}
    IN [id \in DOMAIN ss \ expired_sessions |-> ss[id]]

\* _cleanup_expired_sessions run before the session asked for is touched
get_session_sweep_first(st, session_id, t, ttl) ==
    LET id == IF InvalidId(session_id) THEN UuidNames[st.uuids + 1] ELSE session_id
        swept == _cleanup_expired_sessions(st.sessions, t, ttl)
        touched == IF id \notin DOMAIN swept
                   THEN (id :> NewSession(id, t)) @@ swept
                   ELSE [swept EXCEPT ![id].last_active = t]
    IN [sessions |-> touched,
        uuids |-> IF InvalidId(session_id) THEN st.uuids + 1 ELSE st.uuids,
        id |-> id]

\* get_session on the store st = [sessions, uuids] at time t: the store after
\* the call and the id of the session returned
get_session(st, session_id, t, ttl) ==
    LET id == IF InvalidId(session_id) THEN UuidNames[st.uuids + 1] ELSE session_id
        touched == IF id \notin DOMAIN st.sessions
                   THEN (id :> NewSession(id, t)) @@ st.sessions
                   ELSE [st.sessions EXCEPT ![id].last_active = t]
    IN [sessions |-> _cleanup_expired_sessions(touched, t, ttl),
        uuids |-> IF InvalidId(session_id) THEN st.uuids + 1 ELSE st.uuids,
        id |-> id]

\* Message(role, content); `by` is the request that wrote it, kept for the record
Message(role, content, by) == [role |-> role, content |-> content, by |-> by]

add_message(st, session_id, role, content, by, t, ttl) ==
    LET g == get_session(st, session_id, t, ttl)
    IN [sessions |-> [g.sessions EXCEPT
                        ![g.id].history = Append(@, Message(role, content, by)),
                        ![g.id].last_active = t],
        uuids |-> g.uuids]

get_chat_history(st, session_id, t, ttl) ==
    LET g == get_session(st, session_id, t, ttl)
    IN [sessions |-> g.sessions, uuids |-> g.uuids,
        history |-> g.sessions[g.id].history]

\* get_session_context: the store after the call and the dict returned. The
\* count is taken from the session's key "messages", which no session has.
get_session_context(st, session_id, t, ttl) ==
    LET g == get_session(st, session_id, t, ttl)
        session == g.sessions[g.id]
    IN [sessions |-> g.sessions, uuids |-> g.uuids,
        context |-> [exists |-> TRUE, session_id |-> session_id,
                     created_at |-> session.created_at,
                     last_active |-> session.last_active,
                     message_count |-> Len(<<>>),
                     expires_at |-> session.last_active + ttl]]

set_session_metadata(st, session_id, value, t, ttl) ==
    LET g == get_session(st, session_id, t, ttl)
    IN [sessions |-> [g.sessions EXCEPT ![g.id].metadata = value], uuids |-> g.uuids]

\* clear_session replacing the session by a new one
clear_session_recreate(st, session_id, t) ==
    IF session_id \in DOMAIN st.sessions
    THEN [sessions |-> [st.sessions EXCEPT ![session_id] = NewSession(session_id, t)],
          uuids |-> st.uuids, result |-> TRUE]
    ELSE [sessions |-> st.sessions, uuids |-> st.uuids, result |-> FALSE]

\* clear_session at time t: the store after the call and the value returned
clear_session(st, session_id, t) ==
    IF session_id \in DOMAIN st.sessions
    THEN [sessions |-> [st.sessions EXCEPT ![session_id].history = <<>>,
                                           ![session_id].last_active = t],
          uuids |-> st.uuids, result |-> TRUE]
    ELSE [sessions |-> st.sessions, uuids |-> st.uuids, result |-> FALSE]

\* delete_session: the store after the call and the value returned
delete_session(st, session_id) ==
    IF session_id \in DOMAIN st.sessions
    THEN [sessions |-> [id \in DOMAIN st.sessions \ {session_id} |-> st.sessions[id]],
          uuids |-> st.uuids, result |-> TRUE]
    ELSE [sessions |-> st.sessions, uuids |-> st.uuids, result |-> FALSE]

(***************************************************************************)
(* ChatService                                                             *)
(***************************************************************************)

\* the order records of order_samples.json that the queries refer to
Tracking == <<"S", "F", "1", "2", "3", "4", "5", "6">>
Carrier == <<"shun4", "feng1">>

order_samples ==
    (IdFixture :> [order_id |-> IdFixture, status |-> "shipped",
                   tracking_number |-> Tracking, carrier |-> Carrier])
    @@ (IdTwelve :> [order_id |-> IdTwelve, status |-> "shipped",
                     tracking_number |-> Tracking, carrier |-> Carrier])
    @@ (IdTen :> [order_id |-> IdTen, status |-> "processing",
                  tracking_number |-> None, carrier |-> None])

\* r'OD\d{10,12}' of _extract_order_id
pattern == [prefix |-> <<"O", "D">>, min |-> 10, max |-> 12]

_extract_order_id(query) == ReSearch(pattern, query)

\* _find_order_by_id: whether a record has this order_id
order_found(order_id) == order_id \in DOMAIN order_samples

\* what the generator may answer to a chat prompt: a reply that names nothing,
\* and, to an order prompt, one that gives the order's number and shipment
Reply == <<"reply">>
OrderReply(order) ==
    <<"reply">> \o order.order_id \o order.carrier \o order.tracking_number

\* "for order number {order_id} information was found, but a problem occurred
\* while processing it. please try again later."
OrderFallback(order_id) ==
    <<"gen1", "ju4", "ding4", "dan1", "hao4", " ">> \o order_id
        \o <<" ", "cha2", "xun2", "dao4", "xiang1", "guan1", "xin4", "xi1", ",",
             "dan4", "zai4", "chu3", "li3", "guo4", "cheng2", "zhong1", "yu4",
             "dao4", "wen4", "ti2", ".", "qing3", "shao1", "hou4", "zai4", "shi4", ".">>

\* "sorry, I ran into a problem handling your request, please try again later."
error_message ==
    <<"bao4", "qian4", ",", "wo3", "zai4", "chu3", "li3", "nin2", "de", "qing3",
      "qiu2", "shi2", "yu4", "dao4", "le", "wen4", "ti2", ",", "qing3", "shao1",
      "hou4", "zai4", "shi4", ".">>

\* the default top_k of retrieve
DefaultTopK == 5

\* the default session_ttl, 3600 * 24 seconds
DefaultTtl == 86400

\* the partitions as they rank their documents for a chat query
KnowledgeBase ==
    [stores |-> [p \in Partitions |->
                    IF p = "general_knowledge" THEN <<DocFaqA, DocFaqB>>
                    ELSE IF p = "product_knowledge" THEN <<DocProduct, DocPlain, DocBraces>>
                    ELSE <<>>],
     fails |-> [p \in Partitions |-> FALSE],
     ready |-> TRUE, answer |-> Raises]

\* the collaborators a request meets: the partitions whose search raises, and
\* whether the order files can be read
Healthy == [failing |-> {}, orders_readable |-> TRUE]

IdleCall ==
    [pc |-> "idle", query |-> None, session_id |-> "", chat_history |-> <<>>,
     intent |-> UNKNOWN, confidence |-> 0, order_id |-> None, branch |-> "none",
     grounded |-> FALSE, response |-> None, response_intent |-> UNKNOWN,
     classify_invoked |-> 0, order_invoked |-> 0, caught |-> FALSE,
     history_at_return |-> <<>>, malformed |-> FALSE, env |-> Healthy]

\* the history of session_id as the store holds it, without touching the store
HistoryOf(ss, session_id) ==
    IF session_id \in DOMAIN ss THEN ss[session_id].history ELSE <<>>

\* "sorry, I cannot answer your question for now, please try again later."
ApologyCompose ==
    <<"bao4", "qian4", ",", "wo3", "zan4", "shi2", "wu2", "fa3", "hui2", "da2",
      "nin2", "de", "wen4", "ti2", ",", "qing3", "shao1", "hou4", "zai4", "shi4", ".">>

\* _generate_response with the generator behaving as gen = [ainvoke, invoke].
\* Without retrieved documents the prompt is the system prompt, the history
\* but its last message, and the query; with documents it is one system
\* message that holds them and the query. text is what the composer returns:
\* the content of the awaited call, or what direct_query answers when that
\* call raised or the llm property did.
_generate_response(query, intent, rag_result, chat_history, ready, gen) ==
    LET context == rag_result.documents # <<>>
        earlier == SubSeq(chat_history, 1, Len(chat_history) - 1)
        messages == IF ~context
                    THEN [kind |-> "chat", intent |-> intent, history |-> earlier,
                          documents |-> <<>>, query |-> query]
                    ELSE [kind |-> "rag", intent |-> intent, history |-> <<>>,
                          documents |-> rag_result.documents, query |-> query]
        first == IF ready THEN gen.ainvoke ELSE Raises
        d == direct_query(ready, gen.invoke)
    IN [text |-> IF first = Raises THEN d.value ELSE first,
        messages |-> messages,
        invoked |-> (IF ready THEN 1 ELSE 0) + (IF first = Raises THEN d.invoked ELSE 0)]

\* lines 66-76, 84-94 and the handler of lines 96-106: the reply is appended
\* to the history and the response returned. Building a Message from a content
\* that is no string raises, and the handler appends error_message instead; so
\* it does when the composer itself raised (text = Raises).
Respond(st, c, by, text, t, ttl) ==
    LET caught == text \in {NonText, Raises}
        said == IF caught THEN error_message ELSE text
        after == add_message(st, c.session_id, "assistant", said, by, t, ttl)
    IN [sessions |-> after.sessions, uuids |-> after.uuids,
        call |-> [c EXCEPT !.pc = "done", !.response = said, !.caught = caught,
                           !.response_intent = IF caught THEN UNKNOWN ELSE c.intent,
                           !.history_at_return = HistoryOf(after.sessions, c.session_id)]]

\* lines 53-82 up to the first generator call that is awaited, for the
\* classification `result`. With the generator uninitialised the llm property
\* raises inside the try blocks, so _generate_order_response answers its
\* fallback and _generate_response the apology of direct_query at once.
AfterClassify(st, c, by, result, ready, t, ttl) ==
    LET meta == set_session_metadata(st, c.session_id, result.intent, t, ttl)
        order_id == _extract_order_id(c.query)
        c1 == [c EXCEPT !.intent = result.intent, !.confidence = result.confidence,
                        !.classify_invoked = result.invoked, !.order_id = order_id]
        order_info == c.env.orders_readable /\ order_found(order_id)
        partitions == [KnowledgeBase EXCEPT
                          !.fails = [p \in Partitions |-> p \in c.env.failing]]
    IN IF result.intent = ORDER_STATUS /\ order_id # None /\ order_info
       THEN IF ready
            THEN [sessions |-> meta.sessions, uuids |-> meta.uuids,
                  call |-> [c1 EXCEPT !.pc = "order_llm", !.branch = "order"]]
            ELSE Respond(meta, [c1 EXCEPT !.branch = "order"], by,
                         OrderFallback(order_id), t, ttl)
       ELSE LET rag_result == retrieve(c.query, result.intent, DefaultTopK, partitions)
                c2 == [c1 EXCEPT !.branch = "rag",
                                 !.grounded = rag_result.documents # <<>>]
            IN IF ready
               THEN [sessions |-> meta.sessions, uuids |-> meta.uuids,
                     call |-> [c2 EXCEPT !.pc = "compose"]]
               ELSE Respond(meta, c2, by,
                            _generate_response(c.query, result.intent, rag_result,
                                c.chat_history, FALSE,
                                [ainvoke |-> Raises, invoke |-> Raises]).text,
                            t, ttl)

\* lines 39-50 up to the generator call of the classifier, if it makes one
Begin(st, c, by, query, session_id, ready, t, ttl) ==
    LET recorded == add_message(st, session_id, "user", query, by, t, ttl)
        h == get_chat_history(recorded, session_id, t, ttl)
        c1 == [c EXCEPT !.query = query, !.session_id = session_id,
                        !.chat_history = h.history]
        store == [sessions |-> h.sessions, uuids |-> h.uuids]
    IN IF _contains_order_id(query) \/ ~ready
       THEN AfterClassify(store, c1, by,
                          classify(query, ready, [ainvoke |-> Raises, invoke |-> Raises]),
                          ready, t, ttl)
       ELSE [sessions |-> store.sessions, uuids |-> store.uuids,
             call |-> [c1 EXCEPT !.pc = "classify"]]

(***************************************************************************)
(* The classifier on its own: any query, any behaviour of the generator    *)
(***************************************************************************)

NoResult == [intent |-> UNKNOWN, confidence |-> 0, message |-> FALSE, invoked |-> 0]

NoClassification ==
    [called |-> FALSE, query |-> None, ready |-> FALSE,
     gen |-> [ainvoke |-> Raises, invoke |-> Raises], result |-> NoResult]

NoRetrieval == [op |-> "none"]

NoLookup ==
    [called |-> FALSE, session_id |-> "", expired |-> FALSE, held |-> <<>>,
     history |-> <<>>, returned |-> "", existed |-> FALSE, context |-> None]

ChatIdle ==
    /\ sessions = <<>>
    /\ uuids = 0
    /\ now = 0
    /\ session_ttl = 0
    /\ llm_ready = FALSE
    /\ calls = <<>>
    /\ lookup = NoLookup

\* the call to come: its query and the generator it will meet
InitClassify ==
    /\ \E query \in Queries, ready \in BOOLEAN, a \in Outcomes, i \in Outcomes :
          cls = [called |-> FALSE, query |-> query, ready |-> ready,
                 gen |-> [ainvoke |-> a, invoke |-> i], result |-> NoResult]
    /\ rag = NoRetrieval
    /\ ChatIdle

Classify ==
    /\ ~cls.called
    /\ cls' = [cls EXCEPT !.called = TRUE,
                          !.result = classify(cls.query, cls.ready, cls.gen)]
    /\ UNCHANGED <<ragVars, chatVars>>

NextClassify == Classify

SpecClassify == InitClassify /\ [][NextClassify]_vars

\* a run of at least 10 digits directly after the letters OD, and an order keyword
OrderKeywordSet ==
    {<<"ding4", "dan1">>, <<"bao1", "guo3">>, <<"fa1", "huo4">>, <<"wu4", "liu2">>,
     <<"kuai4", "di4">>, <<"pei4", "song4">>, <<"song4", "da2">>, <<"zhui1", "zong1">>,
     <<"cha2", "xun2">>}

EmbedsOrderId(q) ==
    \E i \in 1..Len(q) :
        /\ i + 11 <= Len(q)
        /\ q[i] = "O"
        /\ q[i + 1] = "D"
        /\ \A j \in (i + 2)..(i + 11) : q[j] \in Digits

EmbedsOrderKeyword(q) ==
    \E w \in OrderKeywordSet : \E i \in 1..Len(q) :
        i + Len(w) - 1 <= Len(q) /\ \A j \in 1..Len(w) : q[i + j - 1] = w[j]

\* C1: a query that holds a valid order identifier and an order keyword is
\* classified order_status with confidence 0.95 and the generator is not
\* invoked, whether the generator is available, failing or uninitialised.
C1_OverrideIgnoresGenerator ==
    (cls.called /\ EmbedsOrderId(cls.query) /\ EmbedsOrderKeyword(cls.query))
        => /\ cls.result.intent = ORDER_STATUS
           /\ cls.result.confidence = 95
           /\ cls.result.invoked = 0

\* C1 witness: the override has answered for a ten-digit identifier while the
\* generator was initialised and would have raised.
C1_Witness ==
    /\ cls.called
    /\ cls.query = QueryTen
    /\ cls.ready
    /\ cls.gen.ainvoke = Raises
    /\ cls.result.intent = ORDER_STATUS
    /\ cls.result.confidence = 95

\* no answer was obtained from the generator: it is uninitialised, or both the
\* awaited call and the synchronous fallback raise or answer no text
GeneratorFailed ==
    \/ ~cls.ready
    \/ cls.gen.ainvoke \notin Answers /\ cls.gen.invoke \notin Answers

\* the answer obtained from the generator names no category
GeneratorNoMatch ==
    /\ cls.ready
    /\ \/ cls.gen.ainvoke = AnswerOther
       \/ cls.gen.ainvoke \notin Answers /\ cls.gen.invoke = AnswerOther

\* C12: for a query without an order identifier, a failure of the generator
\* gives unknown with confidence 0.0 and a diagnostic message, and an answer
\* that matches no category gives unknown with confidence 0.5 and no message.
C12_FailureDistinctFromNoMatch ==
    cls.called /\ ~EmbedsOrderId(cls.query) =>
        /\ GeneratorFailed =>
              /\ cls.result.intent = UNKNOWN
              /\ cls.result.confidence = 0
              /\ cls.result.message
        /\ GeneratorNoMatch =>
              /\ cls.result.intent = UNKNOWN
              /\ cls.result.confidence = 50
              /\ ~cls.result.message

\* the answer spells the word somewhere, in any mix of cases
Names(answer, word) ==
    \E i \in 1..Len(answer) :
        /\ i + Len(word) - 1 <= Len(answer)
        /\ \A j \in 1..Len(word) : LowerChar(answer[i + j - 1]) = word[j]

\* the intent the fixed priority product, order, return/refund, general gives
ByPriority(answer) ==
    IF Names(answer, <<"p", "r", "o", "d", "u", "c", "t">>) THEN PRODUCT_INQUIRY
    ELSE IF Names(answer, <<"o", "r", "d", "e", "r">>) THEN ORDER_STATUS
    ELSE IF \/ Names(answer, <<"r", "e", "t", "u", "r", "n">>)
            \/ Names(answer, <<"r", "e", "f", "u", "n", "d">>) THEN RETURN_REFUND
    ELSE IF Names(answer, <<"g", "e", "n", "e", "r", "a", "l">>) THEN GENERAL_INQUIRY
    ELSE UNKNOWN

\* C20: when the query holds no order identifier and the generator answers, the
\* intent is the first category, in the order product, order, return/refund,
\* general, whose keyword the answer contains, with confidence 0.9, and
\* unknown with confidence 0.5 when it contains none.
C20_FirstMatchWins ==
    /\ cls.called /\ cls.ready /\ cls.gen.ainvoke \in Answers
    /\ ~EmbedsOrderId(cls.query)
    => /\ cls.result.intent = ByPriority(cls.gen.ainvoke)
       /\ cls.result.confidence = IF ByPriority(cls.gen.ainvoke) = UNKNOWN THEN 50
                                  ELSE 90

\* C20 witness: for a greeting the generator answered "product order" and the
\* result is product_inquiry with confidence 0.9.
C20_Witness ==
    /\ cls.called /\ cls.ready
    /\ cls.query = QueryHello
    /\ cls.gen.ainvoke = AnswerBoth
    /\ cls.result.intent = PRODUCT_INQUIRY
    /\ cls.result.confidence = 90

(***************************************************************************)
(* The retriever on its own: retrieve, _rerank_documents and               *)
(* _process_documents applied to any input                                 *)
(***************************************************************************)

MaxDocs == 3        \* the longest document list handed to a function
MaxAnswerLen == 3   \* the longest re-rank answer, in characters
MaxTopK == 4        \* the largest top_k

RerankDocuments == {DocFaqA, DocProduct, DocPlain}
RerankAlphabet == {"0", "1", "2", "3", ","}

\* a partition's documents as ranked for the query
Rankings == {<<>>, <<DocFaqA, DocFaqB>>, <<DocProduct, DocPlain, DocBraces>>,
             <<DocFaqJson, DocBraces>>, <<DocCopy>>}

\* "how to use shopping points", "order status"
QueryPoints == <<"zen3", "yang4", "shi3", "yong4", "gou4", "wu4", "ji1", "fen1">>
RetrievalQueries == {QueryPoints, QueryOrderWord}

\* the documents handed to _merge_and_deduplicate_docs, and the longest list
MergeDocuments == {DocFaqA, DocCopy, DocProduct, DocPlain}
MaxMerge == 2

\* what a re-rank that fails meets: the generator raising, an answer naming
\* no document
FailedRerankAnswers == {Raises, <<",">>, <<"0">>}

\* the partitions whose underlying search raises
FailingPartitions == {{}, {"general_knowledge"}, {"product_knowledge"}}

NoEnv ==
    [stores |-> [p \in Partitions |-> <<>>], fails |-> [p \in Partitions |-> FALSE],
     ready |-> FALSE, answer |-> Raises]

RetrievalCall(op, docs, query, intent, top_k, env) ==
    [op |-> op, done |-> FALSE, docs |-> docs, query |-> query, intent |-> intent,
     top_k |-> top_k, env |-> env, out |-> RAGResult(<<>>, <<>>, None)]

\* the call to come
InitRetrieve ==
    /\ \/ \E docs \in SeqUpTo(RerankDocuments, MaxDocs), ready \in BOOLEAN,
             answer \in SeqUpTo(RerankAlphabet, MaxAnswerLen) \cup {Raises} :
            rag = RetrievalCall("rerank", docs, None, UNKNOWN, 0,
                                [NoEnv EXCEPT !.ready = ready, !.answer = answer])
       \/ \E docs \in SeqUpTo(Documents, MaxDocs) :
            rag = RetrievalCall("process", docs, None, UNKNOWN, 0, NoEnv)
       \/ \E query \in RetrievalQueries, intent \in IntentType, top_k \in 0..MaxTopK,
             stores \in [Partitions -> Rankings], failing \in FailingPartitions :
            rag = RetrievalCall("retrieve", <<>>, query, intent, top_k,
                                [stores |-> stores,
                                 fails |-> [p \in Partitions |-> p \in failing],
                                 ready |-> TRUE, answer |-> <<"2", ",", "1">>])
       \/ \E intent \in IntentType, top_k \in 0..MaxTopK, ranking \in Rankings,
             answer \in FailedRerankAnswers :
            rag = RetrievalCall("retrieve", <<>>, QueryPoints, intent, top_k,
                                [NoEnv EXCEPT !.stores[vector_stores(intent)] = ranking,
                                              !.ready = TRUE, !.answer = answer])
       \/ \E query \in RetrievalQueries, intent \in IntentType, k \in 0..MaxTopK,
             general \in Rankings, order \in Rankings, failing \in FailingPartitions :
            rag = RetrievalCall("backfill", <<>>, query, intent, k,
                                [NoEnv EXCEPT !.stores["general_knowledge"] = general,
                                              !.stores["order_knowledge"] = order,
                                              !.fails = [p \in Partitions |-> p \in failing]])
       \/ \E primary_docs \in SeqUpTo(MergeDocuments, MaxMerge),
             secondary_docs \in SeqUpTo(MergeDocuments, MaxMerge) :
            rag = RetrievalCall("merge", primary_docs, None, UNKNOWN, 0, NoEnv)
                    @@ [secondary_docs |-> secondary_docs]
    /\ cls = NoClassification
    /\ ChatIdle

Rerank ==
    /\ rag.op = "rerank" /\ ~rag.done
    /\ rag' = [rag EXCEPT !.done = TRUE,
                          !.out = _rerank_documents(rag.docs, rag.env.ready, rag.env.answer)]
    /\ UNCHANGED <<clsVars, chatVars>>

ProcessDocuments ==
    /\ rag.op = "process" /\ ~rag.done
    /\ rag' = [rag EXCEPT !.done = TRUE, !.out = _process_documents(rag.docs)]
    /\ UNCHANGED <<clsVars, chatVars>>

Retrieve ==
    /\ rag.op = "retrieve" /\ ~rag.done
    /\ rag' = [rag EXCEPT !.done = TRUE,
                          !.out = retrieve(rag.query, rag.intent, rag.top_k, rag.env)]
    /\ UNCHANGED <<clsVars, chatVars>>

\* _retrieve_from_multiple_stores called on its own, with the searches it made
RetrieveFromMultipleStores ==
    /\ rag.op = "backfill" /\ ~rag.done
    /\ rag' = [rag EXCEPT
                !.done = TRUE,
                !.out = [docs |-> _retrieve_from_multiple_stores(
                                    rag.query, rag.intent, rag.top_k, rag.env),
                         searches |-> BackfillSearches(rag.query, rag.intent, rag.top_k)]]
    /\ UNCHANGED <<clsVars, chatVars>>

\* _merge_and_deduplicate_docs called on its own
MergeAndDeduplicateDocs ==
    /\ rag.op = "merge" /\ ~rag.done
    /\ rag' = [rag EXCEPT
                !.done = TRUE,
                !.out = _merge_and_deduplicate_docs(rag.docs, rag.secondary_docs)]
    /\ UNCHANGED <<clsVars, chatVars>>

NextRetrieve ==
    \/ Rerank
    \/ ProcessDocuments
    \/ Retrieve
    \/ RetrieveFromMultipleStores
    \/ MergeAndDeduplicateDocs

SpecRetrieve == InitRetrieve /\ [][NextRetrieve]_vars

\* C5: the number of documents in the RAGResult that retrieve returns never
\* exceeds top_k, for every intent, query and state of the partitions.
C5_AtMostTopK ==
    (rag.op = "retrieve" /\ rag.done) => Len(rag.out.documents) <= rag.top_k

\* C5 witness: retrieve has returned for top_k = 3 on a primary partition whose
\* search found three documents while the general partition holds others.
C5_Witness ==
    /\ rag.op = "retrieve" /\ rag.done
    /\ rag.top_k = 3
    /\ rag.intent = PRODUCT_INQUIRY
    /\ Len(rag.env.stores["product_knowledge"]) = 3
    /\ Len(rag.env.stores["general_knowledge"]) = 2
    /\ ~rag.env.fails["general_knowledge"]

NoDuplicates(s) == \A i, j \in 1..Len(s) : s[i] = s[j] => i = j

FirstWithSource(docs, src) ==
    CHOOSE k \in 1..Len(docs) :
        /\ SourceOf(docs[k]) = src
        /\ \A m \in 1..(k - 1) : SourceOf(docs[m]) # src

\* C6: the sources returned hold no duplicate, each is the source of one of the
\* documents returned, and they stand in the order in which their source first
\* appears among those documents. (retrieve returns what _process_documents
\* made of its final document list; a document without a source field counts
\* under the placeholder the code gives it.)
C6_SourcesFirstSeenOrder ==
    /\ (rag.op = "process" /\ rag.done) =>
         /\ NoDuplicates(rag.out.sources)
         /\ \A i \in 1..Len(rag.out.sources) :
              \E k \in 1..Len(rag.docs) : SourceOf(rag.docs[k]) = rag.out.sources[i]
         /\ \A i, j \in 1..Len(rag.out.sources) :
              i < j => FirstWithSource(rag.docs, rag.out.sources[i])
                         < FirstWithSource(rag.docs, rag.out.sources[j])
    /\ (rag.op = "retrieve" /\ rag.done) =>
         /\ NoDuplicates(rag.out.sources)
         /\ Len(rag.out.sources) <= Len(rag.out.documents)

\* C6 witness: three documents, the first and the last from the same file, have
\* been processed into two sources.
C6_Witness ==
    /\ rag.op = "process" /\ rag.done
    /\ rag.docs = <<DocFaqA, DocProduct, DocFaqB>>
    /\ rag.out.sources = <<"faq.json", "product.json">>

Count(s, x) == Cardinality({k \in 1..Len(s) : s[k] = x})

\* C7: _rerank_documents returns a permutation of its input, whatever the
\* generator answers: every document occurs in the output as often as in the
\* input.
C7_RerankIsPermutation ==
    (rag.op = "rerank" /\ rag.done) =>
        /\ Len(rag.out) = Len(rag.docs)
        /\ \A d \in RerankDocuments : Count(rag.out, d) = Count(rag.docs, d)

\* C7 witness: the answer "3,3" (a repeated index, two indices omitted) has
\* moved the third of three distinct documents to the front.
C7_Witness ==
    /\ rag.op = "rerank" /\ rag.done
    /\ rag.env.ready
    /\ rag.env.answer = <<"3", ",", "3">>
    /\ rag.docs = <<DocFaqA, DocProduct, DocPlain>>
    /\ rag.out = <<DocPlain, DocFaqA, DocProduct>>

\* C11: when the search of the primary partition raises and the general
\* partition holds documents for the query, retrieve answers with documents
\* of the general partition: its result is not empty.
C11_PrimaryFailureBackfilled ==
    /\ rag.op = "retrieve" /\ rag.done
    /\ vector_stores(rag.intent) # "general_knowledge"
    /\ rag.env.fails[vector_stores(rag.intent)]
    /\ ~rag.env.fails["general_knowledge"]
    /\ rag.env.stores["general_knowledge"] # <<>>
    /\ rag.top_k >= 2
    => rag.out.documents # <<>>

\* the documents a partition ranks for the call, cut to k, none when its
\* underlying search raises
RankedFor(call) ==
    LET part == vector_stores(call.intent)
    IN IF call.env.fails[part] THEN <<>> ELSE Take(call.env.stores[part], call.top_k)

\* C19: what similarity_search returns unpacks into two names without raising:
\* the first is the list of the ranked documents, at most k of them, the
\* second the list of their sources, empty lists when the search fails.
C19_SearchReturnsPair ==
    rag.op = "retrieve" /\ rag.done =>
        LET part == vector_stores(rag.intent)
            found == Unpack(similarity_search(rag.env.stores[part],
                                              rag.env.fails[part], rag.top_k))
        IN /\ ~found.raised
           /\ found.docs.py = "list"
           /\ found.sources.py = "list"
           /\ found.docs.value = RankedFor(rag)
           /\ Len(found.docs.value) <= rag.top_k

\* the searches of the general partition among those of a backfill
GeneralSearches(searches) ==
    {i \in 1..Len(searches) : searches[i].partition = "general_knowledge"}

\* C21: during backfill the general partition is searched at most once, and
\* not at all when it is the primary partition (intent general_inquiry or
\* unknown); every backfill search has the limit top_k/2.
C21_GeneralSearchedOnceUnlessPrimary ==
    rag.op = "backfill" /\ rag.done =>
        /\ Cardinality(GeneralSearches(rag.out.searches)) <= 1
        /\ vector_stores(rag.intent) = "general_knowledge"
             => GeneralSearches(rag.out.searches) = {}
        /\ \A i \in 1..Len(rag.out.searches) : rag.out.searches[i].k = rag.top_k \div 2

\* the forms of an output record: the parsed object, the FAQ record, the raw text
IsParsedObject(doc, record) ==
    record.type = "json" /\ record.content = doc.page_content.text

IsFaqRecord(doc, record) ==
    /\ record.type = "faq" /\ record.content = doc.page_content.text
    /\ record.category = doc.metadata.category

IsRawText(doc, record) ==
    record.type = "content" /\ record.content = doc.page_content.text

\* C24 as stated: one record per document, in order, the parsed object when
\* the content parses as a JSON object, else the FAQ record when the
\* document is FAQ-typed, else the raw text.
C24_ParsedObjectBeforeFaq ==
    rag.op = "process" /\ rag.done =>
        /\ Len(rag.out.documents) = Len(rag.docs)
        /\ \A k \in 1..Len(rag.docs) :
              LET doc == rag.docs[k]
                  record == rag.out.documents[k]
              IN IF doc.page_content.parses THEN IsParsedObject(doc, record)
                 ELSE IF doc.metadata.type = "faq" THEN IsFaqRecord(doc, record)
                 ELSE IsRawText(doc, record)

\* C24 amended: one record per document, in order, the FAQ record when the
\* document is FAQ-typed, else the parsed object when the content is braced
\* and parses as JSON, else the raw text.
C24_FaqBeforeParsedObject ==
    rag.op = "process" /\ rag.done =>
        /\ Len(rag.out.documents) = Len(rag.docs)
        /\ \A k \in 1..Len(rag.docs) :
              LET doc == rag.docs[k]
                  record == rag.out.documents[k]
              IN IF doc.metadata.type = "faq" THEN IsFaqRecord(doc, record)
                 ELSE IF doc.page_content.braced /\ doc.page_content.parses
                      THEN IsParsedObject(doc, record)
                 ELSE IsRawText(doc, record)

\* C24 witness: an FAQ-typed document with JSON content, a JSON document and
\* a plain one have been processed into an FAQ record, a parsed object and
\* a raw text.
C24_Witness ==
    /\ rag.op = "process" /\ rag.done
    /\ rag.docs = <<DocFaqJson, DocProduct, DocPlain>>
    /\ rag.out.documents[1].type = "faq"
    /\ rag.out.documents[2].type = "json"
    /\ rag.out.documents[3].type = "content"

\* the re-rank generator raised, or its answer names none of n documents
RerankFailed(ready, answer, n) ==
    \/ ~ready
    \/ answer = Raises
    \/ \A k \in 1..Len(FindAllInts(answer, 1)) : FindAllInts(answer, 1)[k] \notin 1..n

\* C23: when the re-rank generator raises or its answer names no document,
\* _rerank_documents returns the documents in their original order, and
\* retrieve, which re-ranks a list of three or more documents, answers with
\* those documents in that order.
C23_FailedRerankKeepsOrder ==
    /\ (rag.op = "rerank" /\ rag.done
            /\ RerankFailed(rag.env.ready, rag.env.answer, Len(rag.docs)))
        => rag.out = rag.docs
    /\ (rag.op = "retrieve" /\ rag.done
            /\ Len(RankedFor(rag)) >= 3
            /\ 10 * Len(RankedFor(rag)) >= 6 * rag.top_k
            /\ RerankFailed(rag.env.ready, rag.env.answer, Len(RankedFor(rag))))
        => rag.out.documents = _process_documents(RankedFor(rag)).documents

\* the documents of s whose content no earlier document of s has
RECURSIVE FirstOfEachContent(_)
FirstOfEachContent(s) ==
    IF s = <<>> THEN <<>>
    ELSE LET front == FirstOfEachContent(SubSeq(s, 1, Len(s) - 1))
             last == s[Len(s)]
         IN IF \E k \in 1..(Len(s) - 1) : s[k].page_content = last.page_content
            THEN front ELSE Append(front, last)

\* C22: the merged list is the primary documents followed by the backfill
\* documents, each in their order, without every document whose content an
\* earlier one has: no two documents of the merged list have the same content.
C22_MergedListHasNoRepeatedContent ==
    rag.op = "merge" /\ rag.done =>
        /\ ~rag.out.raised
        /\ rag.out.docs = FirstOfEachContent(rag.docs \o rag.secondary_docs)
        /\ \A i, j \in 1..Len(rag.out.docs) :
              rag.out.docs[i].page_content = rag.out.docs[j].page_content => i = j

(***************************************************************************)
(* The response composer on its own: any retrieval result, any generator   *)
(***************************************************************************)

ComposeQueries == {QueryHello, QueryTwelve}
ComposeResults ==
    {RAGResult(<<>>, <<>>, None),
     RAGResult(_process_documents(<<DocFaqA>>).documents,
               _process_documents(<<DocFaqA>>).sources, None)}
MaxExchanges == 6   \* the most earlier exchanges in a session's history

\* a history of n exchanges, each a user message and the reply to it
RECURSIVE Exchanges(_)
Exchanges(n) ==
    IF n = 0 THEN <<>>
    ELSE Exchanges(n - 1)
            \o <<Message("user", QueryOrderWord, 0), Message("assistant", Reply, 0)>>

ComposeHistories == {Exchanges(n) : n \in 0..MaxExchanges}
ComposeOutcomes == {Reply, Raises, NonText}

InitCompose ==
    /\ \E query \in ComposeQueries, intent \in IntentType, result \in ComposeResults,
          earlier \in ComposeHistories, ready \in BOOLEAN,
          a \in ComposeOutcomes, i \in ComposeOutcomes :
            rag = [op |-> "compose", done |-> FALSE, query |-> query,
                   intent |-> intent, rag_result |-> [result EXCEPT !.query = query],
                   chat_history |-> Append(earlier, Message("user", query, 0)),
                   ready |-> ready, gen |-> [ainvoke |-> a, invoke |-> i],
                   out |-> [text |-> None, messages |-> None, invoked |-> 0]]
    /\ cls = NoClassification
    /\ ChatIdle

Compose ==
    /\ rag.op = "compose" /\ ~rag.done
    /\ rag' = [rag EXCEPT !.done = TRUE,
                          !.out = _generate_response(rag.query, rag.intent,
                                      rag.rag_result, rag.chat_history, rag.ready,
                                      rag.gen)]
    /\ UNCHANGED <<clsVars, chatVars>>

NextCompose == Compose

SpecCompose == InitCompose /\ [][NextCompose]_vars

\* the fixed apologies of the composer and of direct_query
FixedApologies == {ApologyUnavailable, ApologyDirect, ApologyCompose}

\* C14: whenever the generator invocation of the composer fails, with or
\* without retrieved documents, the composer returns a fixed apology.
C14_ComposerFailureGivesFixedApology ==
    /\ rag.op = "compose" /\ rag.done
    /\ ~rag.ready \/ rag.gen.ainvoke = Raises
    => rag.out.text \in FixedApologies

\* s ends with t
IsSuffix(t, s) ==
    Len(t) <= Len(s) /\ t = SubSeq(s, Len(s) - Len(t) + 1, Len(s))

\* C25: without retrieved documents the generator is sent the system prompt
\* of the intent, then the end of the history before the current query, at
\* most 5 turns of it (a turn being a user message and its reply, so at most
\* 10 messages), then the current query as the final message.
C25_PromptHoldsLastFiveTurns ==
    /\ rag.op = "compose" /\ rag.done /\ rag.ready
    /\ rag.rag_result.documents = <<>>
    => /\ rag.out.messages.kind = "chat"
       /\ rag.out.messages.intent = rag.intent
       /\ rag.out.messages.query = rag.query
       /\ IsSuffix(rag.out.messages.history,
                   SubSeq(rag.chat_history, 1, Len(rag.chat_history) - 1))
       /\ Len(rag.out.messages.history) <= 2 * 5

\* stop_after_attempt(3) of the retry policy around _retry_llm_call
stop_after_attempt == 3

\* C18: the generator invocation of the composer runs under the retry policy:
\* when every attempt fails, stop_after_attempt attempts have been made by the
\* time the composer gives up and returns its fallback.
C18_FailedCallRetriedToCap ==
    /\ rag.op = "compose" /\ rag.done
    /\ rag.ready /\ rag.gen.ainvoke = Raises /\ rag.gen.invoke = Raises
    => rag.out.invoked = stop_after_attempt

(***************************************************************************)
(* Re-initialisation of one partition while searches arrive                *)
(***************************************************************************)

MaxFiles == 2    \* knowledge files loaded into the partition

\* VectorStoreManager.clear: the collection is deleted and created anew
clear(store) == <<>>

\* VectorStoreManager.add_documents: the chunks are added to the collection
add_documents(store, documents) == store \o documents

\* the documents of one knowledge file
FileDocuments == {<<DocFaqA>>, <<DocFaqB, DocFaqJson>>}

RECURSIVE Flatten(_)
Flatten(files) == IF files = <<>> THEN <<>> ELSE Head(files) \o Flatten(Tail(files))

InitReload ==
    /\ \E old \in Rankings, files \in SeqUpTo(FileDocuments, MaxFiles) :
          rag = [op |-> "init", pc |-> "start", old |-> old, store |-> old,
                 files |-> files, loaded |-> 0,
                 seen |-> [searched |-> FALSE, k |-> 0, docs |-> <<>>]]
    /\ cls = NoClassification
    /\ ChatIdle

\* init_knowledge_base lines 69-74: the partition is emptied
ClearVectorStore ==
    /\ rag.op = "init" /\ rag.pc = "start"
    /\ rag' = [rag EXCEPT !.store = clear(rag.store),
                          !.pc = IF rag.files = <<>> THEN "done" ELSE "cleared"]
    /\ UNCHANGED <<clsVars, chatVars>>

\* _load_files_to_knowledge_base lines 131-159: the next file is added
LoadFile ==
    /\ rag.op = "init" /\ rag.pc = "cleared"
    /\ rag' = [rag EXCEPT !.store = add_documents(rag.store, rag.files[rag.loaded + 1]),
                          !.loaded = rag.loaded + 1,
                          !.pc = IF rag.loaded + 1 = Len(rag.files) THEN "done"
                                 ELSE "cleared"]
    /\ UNCHANGED <<clsVars, chatVars>>

\* a request searches the partition
SimilaritySearch(k) ==
    /\ rag.op = "init"
    /\ rag' = [rag EXCEPT !.seen = [searched |-> TRUE, k |-> k,
                                    docs |-> similarity_search(rag.store, FALSE, k)]]
    /\ UNCHANGED <<clsVars, chatVars>>

NextReload ==
    \/ ClearVectorStore
    \/ LoadFile
    \/ \E k \in 1..MaxTopK : SimilaritySearch(k)

SpecReload == InitReload /\ [][NextReload]_vars

\* C17: a search that runs while the partition is re-initialised sees the
\* complete old contents or the complete new contents, never an empty or a
\* partly loaded partition.
C17_ReloadIsOneTransition ==
    rag.op = "init" /\ rag.seen.searched =>
        \/ rag.seen.docs = similarity_search(rag.old, FALSE, rag.seen.k)
        \/ rag.seen.docs = similarity_search(Flatten(rag.files), FALSE, rag.seen.k)

(***************************************************************************)
(* The chat service: requests, the generator's answers, the clock          *)
(***************************************************************************)

MaxCalls == 2    \* process_chat requests

ChatQueries == {QueryScenario, QueryTwelve, QueryBareId, QueryAbsent, QueryHello}
ChatSessionIds == {"s1", "undefined"}

ClassifyAnswers == {AnswerOrder, AnswerOther, Raises}
ClassifyFallbacks == {AnswerOther, Raises}
ComposeAnswers == {Reply, Raises, NonText}
ComposeFallbacks == {Reply, Raises}

InitChat ==
    /\ sessions = <<>>
    /\ uuids = 0
    /\ now = 0
    /\ session_ttl = DefaultTtl
    /\ llm_ready \in BOOLEAN
    /\ calls = [p \in 1..MaxCalls |-> IdleCall]
    /\ lookup = NoLookup
    /\ cls = NoClassification
    /\ rag = NoRetrieval

Store == [sessions |-> sessions, uuids |-> uuids]

Commit(p, m) ==
    /\ sessions' = m.sessions
    /\ uuids' = m.uuids
    /\ calls' = [calls EXCEPT ![p] = m.call]
    /\ UNCHANGED <<now, session_ttl, llm_ready, lookup, clsVars, ragVars>>

\* a request arrives: process_chat runs to its first awaited generator call
ChatBegin(p, query, session_id) ==
    /\ calls[p].pc = "idle"
    /\ uuids + 4 <= Len(UuidNames)
    /\ Commit(p, Begin(Store, calls[p], p, query, session_id, llm_ready, now,
                       session_ttl))

\* the classifier's generator call returns a, its fallback i if it runs
ClassifyReturns(p, a, i) ==
    /\ calls[p].pc = "classify"
    /\ Commit(p, AfterClassify(Store, calls[p], p,
                    classify(calls[p].query, TRUE, [ainvoke |-> a, invoke |-> i]),
                    TRUE, now, session_ttl))

\* the generator call of _generate_order_response returns
OrderReplyReturns(p, a) ==
    /\ calls[p].pc = "order_llm"
    /\ LET c == [calls[p] EXCEPT !.order_invoked = 1, !.malformed = (a = NonText)]
           text == IF a = Raises THEN OrderFallback(c.order_id) ELSE a
       IN Commit(p, Respond(Store, c, p, text, now, session_ttl))

\* the generator call of _generate_response returns a, its fallback i if it runs
ComposeReturns(p, a, i) ==
    /\ calls[p].pc = "compose"
    /\ LET partitions == [KnowledgeBase EXCEPT
                             !.fails = [s \in Partitions |-> s \in calls[p].env.failing]]
           rag_result == retrieve(calls[p].query, calls[p].intent, DefaultTopK,
                                  partitions)
           text == _generate_response(calls[p].query, calls[p].intent, rag_result,
                                      calls[p].chat_history, TRUE,
                                      [ainvoke |-> a, invoke |-> i]).text
           c == [calls[p] EXCEPT !.malformed = (a = NonText)]
       IN Commit(p, Respond(Store, c, p, text, now, session_ttl))

Returns(p) ==
    \/ \E a \in ClassifyAnswers, i \in ClassifyFallbacks : ClassifyReturns(p, a, i)
    \/ \E a \in {Reply, Raises, NonText} \cup {OrderReply(order_samples[id]) :
                                                 id \in DOMAIN order_samples} :
          OrderReplyReturns(p, a)
    \/ \E a \in ComposeAnswers, i \in ComposeFallbacks : ComposeReturns(p, a, i)

NextChat ==
    \/ \E p \in 1..MaxCalls, query \in ChatQueries, session_id \in ChatSessionIds :
          ChatBegin(p, query, session_id)
    \/ \E p \in 1..MaxCalls : Returns(p)

\* requests may overlap: each is suspended while it awaits the generator. A
\* request is over long before a session expires: the clock stands still.
SpecChat == InitChat /\ [][NextChat]_vars

InFlight(p) == calls[p].pc \notin {"idle", "done"}

\* requests arrive one at a time
NextChatSerial ==
    \/ \E p \in 1..MaxCalls, query \in ChatQueries, session_id \in ChatSessionIds :
          /\ \A q \in 1..MaxCalls : ~InFlight(q)
          /\ ChatBegin(p, query, session_id)
    \/ \E p \in 1..MaxCalls : Returns(p)

SpecChatSerial == InitChat /\ [][NextChatSerial]_vars

Finished(p) == calls[p].pc = "done"

\* the request has been classified and its branch chosen
Classified(p) == calls[p].pc \in {"order_llm", "compose", "done"}

\* the order records whose identifier the query spells out in full
EmbeddedOrders(query) == {id \in DOMAIN order_samples : Contains(query, id)}

\* C2: a request whose query embeds the identifier of an existing order record
\* has exactly that identifier extracted, takes the structured order branch,
\* and answers with intent order_status.
C2_EmbeddedOrderTakesOrderBranch ==
    \A p \in 1..MaxCalls : \A id \in EmbeddedOrders(calls[p].query) :
        Classified(p) =>
            /\ calls[p].order_id = id
            /\ calls[p].branch = "order"
            /\ (Finished(p) /\ ~calls[p].caught =>
                    calls[p].response_intent = ORDER_STATUS)

\* C3: a response produced on the structured order branch was produced without
\* invoking the generator.
C3_OrderBranchNeverInvokesGenerator ==
    \A p \in 1..MaxCalls :
        Finished(p) /\ calls[p].branch = "order" => calls[p].order_invoked = 0

\* C4: a response of the structured order branch contains the order
\* identifier and, when the record has a tracking number, the tracking number
\* and the carrier, whatever the collaborators did.
C4_OrderResponseNamesShipment ==
    \A p \in 1..MaxCalls :
        Finished(p) /\ calls[p].branch = "order" =>
            LET order == order_samples[calls[p].order_id]
            IN /\ Contains(calls[p].response, order.order_id)
               /\ order.tracking_number # None =>
                     /\ Contains(calls[p].response, order.tracking_number)
                     /\ Contains(calls[p].response, order.carrier)

\* C9: when a request finishes, the history of its session id ends with the
\* user's query followed by one assistant message equal to the response
\* returned, for any session id and whichever collaborator failed.
C9_HistoryEndsWithExchange ==
    \A p \in 1..MaxCalls :
        Finished(p) =>
            LET h == calls[p].history_at_return
                n == Len(h)
            IN /\ n >= 2
               /\ h[n - 1].role = "user"
               /\ h[n - 1].content = calls[p].query
               /\ h[n].role = "assistant"
               /\ h[n].content = calls[p].response

\* C10: when two requests for the same session id have both finished, however
\* they overlapped, every user message of the history is immediately followed
\* by the assistant reply of the same request, and no message is lost.
C10_ExchangesNotInterleaved ==
    \A p, q \in 1..MaxCalls :
        /\ p # q /\ Finished(p) /\ Finished(q)
        /\ calls[p].session_id = calls[q].session_id
        /\ ~InvalidId(calls[p].session_id)
        => LET h == HistoryOf(sessions, calls[p].session_id)
           IN /\ Len(h) = 4
              /\ \A i \in 1..Len(h) :
                    h[i].role = "user" =>
                        /\ i < Len(h)
                        /\ h[i + 1].role = "assistant"
                        /\ h[i + 1].by = h[i].by

(***************************************************************************)
(* One request among failing collaborators                                 *)
(***************************************************************************)

Environments ==
    [failing : FailingPartitions \cup {Partitions}, orders_readable : BOOLEAN]

\* a request arrives while partitions or the order files are failing
ChatBeginDegraded(p, query, session_id, env) ==
    /\ \A q \in 1..MaxCalls : calls[q].pc = "idle"
    /\ Commit(p, Begin(Store, [calls[p] EXCEPT !.env = env], p, query, session_id,
                       llm_ready, now, session_ttl))

NextChatDegraded ==
    \/ \E p \in 1..MaxCalls, query \in ChatQueries, session_id \in ChatSessionIds,
          env \in Environments : ChatBeginDegraded(p, query, session_id, env)
    \/ \E p \in 1..MaxCalls : Returns(p)

SpecChatDegraded == InitChat /\ [][NextChatDegraded]_vars

C28_OverrideIffIdentifierExtracted ==
    \A p \in 1..MaxCalls :
        Classified(p) =>
            LET c == calls[p]
            IN /\ (c.order_id # None) <=> (c.confidence = 95)
               /\ c.order_id # None =>
                    /\ c.intent = ORDER_STATUS
                    /\ c.classify_invoked = 0
                    /\ (c.branch = "order") <=>
                          (c.env.orders_readable /\ c.order_id \in DOMAIN order_samples)

\* C28 witness: a request whose query is an identifier alone, with no order
\* keyword, has returned on the order branch with confidence 0.95.
C28_Witness ==
    \E p \in 1..MaxCalls :
        /\ Finished(p)
        /\ calls[p].query = QueryBareId
        /\ calls[p].order_id = IdTwelve
        /\ calls[p].intent = ORDER_STATUS /\ calls[p].confidence = 95
        /\ calls[p].branch = "order"

(***************************************************************************)
(* The session store on its own: messages, lookups, the clock              *)
(***************************************************************************)

MaxTime == 2      \* clock ticks
MaxTtl == 1       \* the largest session_ttl, in ticks
MaxHistory == 2   \* messages added to one session
MaxFresh == 1     \* uuid4 ids generated

StoreSessionIds == {"s1", "", "undefined"} \cup NonStringIds

InitSession ==
    /\ sessions = <<>>
    /\ uuids = 0
    /\ now = 0
    /\ session_ttl \in 1..MaxTtl
    /\ llm_ready = FALSE
    /\ calls = <<>>
    /\ lookup = NoLookup
    /\ cls = NoClassification
    /\ rag = NoRetrieval

\* session_manager.add_message(session_id, role, content)
AddMessage(session_id, role, content) ==
    /\ InvalidId(session_id) => uuids < MaxFresh
    /\ Len(HistoryOf(sessions, session_id)) < MaxHistory
    /\ LET a == add_message(Store, session_id, role, content, 0, now, session_ttl)
       IN /\ sessions' = a.sessions
          /\ uuids' = a.uuids
    /\ UNCHANGED <<now, session_ttl, llm_ready, calls, lookup, clsVars, ragVars>>

Tick ==
    /\ now < MaxTime
    /\ now' = now + 1
    /\ UNCHANGED <<sessions, uuids, session_ttl, llm_ready, calls, lookup, clsVars,
                   ragVars>>

\* GET /session/{session_id}/history
Lookup(session_id) ==
    /\ InvalidId(session_id) => uuids < MaxFresh
    /\ LET h == get_chat_history(Store, session_id, now, session_ttl)
       IN /\ sessions' = h.sessions
          /\ uuids' = h.uuids
          /\ lookup' = [called |-> TRUE, session_id |-> session_id,
                        expired |-> /\ session_id \in DOMAIN sessions
                                    /\ now - sessions[session_id].last_active
                                         > session_ttl,
                        held |-> HistoryOf(sessions, session_id),
                        history |-> h.history,
                        returned |-> get_session(Store, session_id, now,
                                                 session_ttl).id,
                        existed |-> get_session(Store, session_id, now,
                                                session_ttl).id \in DOMAIN sessions,
                        context |-> None]
    /\ UNCHANGED <<now, session_ttl, llm_ready, calls, clsVars, ragVars>>

\* GET /session/{session_id}/context
GetSessionContext(session_id) ==
    /\ InvalidId(session_id) => uuids < MaxFresh
    /\ LET c == get_session_context(Store, session_id, now, session_ttl)
           g == get_session(Store, session_id, now, session_ttl)
       IN /\ sessions' = c.sessions
          /\ uuids' = c.uuids
          /\ lookup' = [called |-> TRUE, session_id |-> session_id,
                        expired |-> /\ session_id \in DOMAIN sessions
                                    /\ now - sessions[session_id].last_active
                                         > session_ttl,
                        held |-> HistoryOf(sessions, session_id),
                        history |-> <<>>,
                        returned |-> g.id,
                        existed |-> g.id \in DOMAIN sessions,
                        context |-> c.context]
    /\ UNCHANGED <<now, session_ttl, llm_ready, calls, clsVars, ragVars>>

NextSession ==
    \/ \E session_id \in StoreSessionIds, role \in {"user", "assistant"} :
          AddMessage(session_id, role, IF role = "user" THEN QueryHello ELSE Reply)
    \/ \E session_id \in StoreSessionIds : Lookup(session_id)
    \/ \E session_id \in StoreSessionIds : GetSessionContext(session_id)
    \/ Tick

SpecSession == InitSession /\ [][NextSession]_vars

\* C8: a lookup by the id of a session that has had no activity for more than
\* session_ttl returns a fresh session with an empty history.
C8_StaleLookupReturnsFresh ==
    lookup.called /\ lookup.expired => lookup.history = <<>>

\* C15: no session is ever stored under an invalid id, and a lookup by an
\* invalid id (empty, "undefined", no string) returns a session that did not
\* exist before, has an empty history and is stored under a generated id.
C15_InvalidIdRepaired ==
    /\ \A id \in DOMAIN sessions : ~InvalidId_empty_only(id) /\ id # "undefined"
                                   /\ id \notin NonStringIds
    /\ lookup.called /\ (lookup.session_id \in {"", "undefined"} \cup NonStringIds) =>
          /\ lookup.returned \in {UuidNames[k] : k \in 1..Len(UuidNames)}
          /\ ~lookup.existed
          /\ lookup.history = <<>>

\* C15 witness: while s1 holds a message, a lookup by "undefined" has returned
\* the empty session uuid-1, which the store now holds next to s1.
C15_Witness ==
    /\ lookup.called /\ lookup.session_id = "undefined"
    /\ lookup.returned = "uuid-1" /\ lookup.history = <<>>
    /\ DOMAIN sessions = {"s1", "uuid-1"}
    /\ sessions["s1"].history # <<>>
    /\ sessions["uuid-1"].history = <<>>

\* C16: the context reported for a session gives as message_count the number
\* of messages in the session's history, and as expires_at its last_active
\* plus session_ttl.
C16_ContextCountsMessages ==
    lookup.called /\ lookup.context # None =>
        /\ lookup.context.message_count = Len(lookup.held)
        /\ lookup.context.expires_at = lookup.context.last_active + session_ttl

(***************************************************************************)
(* Query expansion on its own                                              *)
(***************************************************************************)

MaxFill == 5    \* the most filler characters before and after the tokens

Filler(n) == [k \in 1..n |-> "x"]

Triggers == {<<>>, TokenPoints, TokenOrder, TokenRefund, TokenReturn}

\* queries of 0 to 2 * MaxFill + 4 characters holding up to two trigger tokens
EnhanceQueries ==
    {Filler(n) \o first \o second \o Filler(m) :
        n \in 0..MaxFill, m \in 0..MaxFill, first \in Triggers, second \in Triggers}

InitEnhance ==
    /\ \E query \in EnhanceQueries :
          rag = [op |-> "enhance", done |-> FALSE, query |-> query, out |-> None]
    /\ cls = NoClassification
    /\ ChatIdle

CreateEnhancedQuery ==
    /\ rag.op = "enhance" /\ ~rag.done
    /\ rag' = [rag EXCEPT !.done = TRUE, !.out = _create_enhanced_query(rag.query)]
    /\ UNCHANGED <<clsVars, chatVars>>

NextEnhance == CreateEnhancedQuery

SpecEnhance == InitEnhance /\ [][NextEnhance]_vars

\* the query holds the characters of the token side by side
Holds(query, token) ==
    \E i \in 1..(Len(query) - 1) : query[i] = token[1] /\ query[i + 1] = token[2]

\* C27: a query of 10 or more characters, or one holding no trigger token,
\* is returned unchanged; a shorter one is returned followed by the synonym
\* terms of the first of points, order, refund/return that it holds; the
\* query is always a prefix of what is returned.
C27_ShortQueryGetsSynonyms ==
    rag.op = "enhance" /\ rag.done =>
        LET q == rag.query
            points == Holds(q, TokenPoints)
            order == Holds(q, TokenOrder)
            refund == Holds(q, TokenRefund) \/ Holds(q, TokenReturn)
        IN /\ Len(rag.out) >= Len(q) /\ SubSeq(rag.out, 1, Len(q)) = q
           /\ (Len(q) >= 10 \/ ~(points \/ order \/ refund)) => rag.out = q
           /\ (Len(q) < 10 /\ points) => rag.out = q \o TermsPoints
           /\ (Len(q) < 10 /\ ~points /\ order) => rag.out = q \o TermsOrder
           /\ (Len(q) < 10 /\ ~points /\ ~order /\ refund) => rag.out = q \o TermsRefund

\* C27 witness: a query of 9 characters holding the order token and then the
\* points token has been returned with the points terms appended.
C27_Witness ==
    /\ rag.op = "enhance" /\ rag.done
    /\ rag.query = Filler(3) \o TokenOrder \o TokenPoints \o Filler(2)
    /\ rag.out = rag.query \o TermsPoints

(***************************************************************************)
(* The session store under get, clear and delete requests                  *)
(***************************************************************************)

RequestIds == {"s1", "s2"}

\* the last request served: the store it met, the store it left, its result
Request(op, session_id, before, after, result) ==
    [op |-> op, session_id |-> session_id, at |-> now, before |-> before,
     after |-> after, result |-> result]

InitStore ==
    /\ sessions = <<>>
    /\ uuids = 0
    /\ now = 0
    /\ session_ttl \in 1..MaxTtl
    /\ llm_ready = FALSE
    /\ calls = <<>>
    /\ lookup = [op |-> "none"]
    /\ cls = NoClassification
    /\ rag = NoRetrieval

\* session_manager.get_session(session_id)
GetSession(session_id) ==
    /\ LET g == get_session(Store, session_id, now, session_ttl)
       IN /\ sessions' = g.sessions
          /\ uuids' = g.uuids
          /\ lookup' = Request("get", session_id, sessions, g.sessions, g.id)
    /\ UNCHANGED <<now, session_ttl, llm_ready, calls, clsVars, ragVars>>

\* DELETE /session/{session_id}
ClearSession(session_id) ==
    /\ LET c == clear_session(Store, session_id, now)
       IN /\ sessions' = c.sessions
          /\ uuids' = c.uuids
          /\ lookup' = Request("clear", session_id, sessions, c.sessions, c.result)
    /\ UNCHANGED <<now, session_ttl, llm_ready, calls, clsVars, ragVars>>

\* session_manager.delete_session(session_id)
DeleteSession(session_id) ==
    /\ LET d == delete_session(Store, session_id)
       IN /\ sessions' = d.sessions
          /\ uuids' = d.uuids
          /\ lookup' = Request("delete", session_id, sessions, d.sessions, d.result)
    /\ UNCHANGED <<now, session_ttl, llm_ready, calls, clsVars, ragVars>>

\* session_manager.add_message(session_id, "user", query)
StoreAddMessage(session_id) ==
    /\ Len(HistoryOf(sessions, session_id)) < MaxHistory
    /\ LET a == add_message(Store, session_id, "user", QueryHello, 0, now, session_ttl)
       IN /\ sessions' = a.sessions
          /\ uuids' = a.uuids
          /\ lookup' = Request("add", session_id, sessions, a.sessions, None)
    /\ UNCHANGED <<now, session_ttl, llm_ready, calls, clsVars, ragVars>>

NextStore ==
    \/ \E session_id \in RequestIds : StoreAddMessage(session_id)
    \/ \E session_id \in RequestIds : GetSession(session_id)
    \/ \E session_id \in RequestIds : ClearSession(session_id)
    \/ \E session_id \in RequestIds : DeleteSession(session_id)
    \/ Tick

SpecStore == InitStore /\ [][NextStore]_vars

\* C26: clear_session on an id in the store empties that session's history,
\* keeps it under the same id with its creation timestamp, returns true and
\* leaves every other session as it was; on an id not in the store it returns
\* false and leaves the store as it was. delete_session removes the named
\* session only and returns true exactly when it was in the store.
C26_ClearKeepsDeleteRemoves ==
    /\ lookup.op = "clear" =>
          LET id == lookup.session_id
          IN IF id \in DOMAIN lookup.before
             THEN /\ lookup.result = TRUE
                  /\ DOMAIN lookup.after = DOMAIN lookup.before
                  /\ lookup.after[id].history = <<>>
                  /\ lookup.after[id].id = id
                  /\ lookup.after[id].created_at = lookup.before[id].created_at
                  /\ \A other \in DOMAIN lookup.before \ {id} :
                        lookup.after[other] = lookup.before[other]
             ELSE lookup.result = FALSE /\ lookup.after = lookup.before
    /\ lookup.op = "delete" =>
          LET id == lookup.session_id
          IN /\ lookup.result = (id \in DOMAIN lookup.before)
             /\ DOMAIN lookup.after = DOMAIN lookup.before \ {id}
             /\ \A other \in DOMAIN lookup.after :
                   lookup.after[other] = lookup.before[other]

\* C26 witness: s1, created at time 0 and holding messages, has been cleared
\* at a later time next to s2, which holds a message.
C26_Witness ==
    /\ lookup.op = "clear" /\ lookup.session_id = "s1" /\ lookup.result = TRUE
    /\ lookup.at > 0
    /\ lookup.before["s1"].created_at = 0
    /\ lookup.before["s1"].history # <<>>
    /\ "s2" \in DOMAIN lookup.before /\ lookup.before["s2"].history # <<>>
    /\ sessions = lookup.after

\* C30: for a positive session_ttl, get_session returns a session that is in
\* the store when the call returns: a session found under the id asked for is
\* refreshed before the sweep and so survives it with its history, however
\* long it was idle, and one not found is created; every other session idle
\* for longer than session_ttl is removed, and no other session is.
C30_RequestedSessionSurvivesSweep ==
    lookup.op = "get" /\ session_ttl > 0 =>
        LET id == lookup.result
            stale == {other \in DOMAIN lookup.before \ {id} :
                        lookup.at - lookup.before[other].last_active > session_ttl}
        IN /\ id = lookup.session_id
           /\ id \in DOMAIN lookup.after
           /\ lookup.after[id].last_active = lookup.at
           /\ id \in DOMAIN lookup.before =>
                 /\ lookup.after[id].history = lookup.before[id].history
                 /\ lookup.after[id].created_at = lookup.before[id].created_at
           /\ id \notin DOMAIN lookup.before => lookup.after[id] = NewSession(id, lookup.at)
           /\ DOMAIN lookup.after = (DOMAIN lookup.before \cup {id}) \ stale
           /\ \A other \in DOMAIN lookup.after \ {id} :
                 lookup.after[other] = lookup.before[other]

\* C30 witness: get_session was asked for s1 when both s1, holding a message,
\* and s2 had been idle for longer than session_ttl; s1 is still stored with
\* its message and s2 is gone.
C30_Witness ==
    /\ lookup.op = "get" /\ lookup.session_id = "s1"
    /\ DOMAIN lookup.before = {"s1", "s2"}
    /\ lookup.at - lookup.before["s1"].last_active > session_ttl
    /\ lookup.at - lookup.before["s2"].last_active > session_ttl
    /\ lookup.before["s1"].history # <<>>
    /\ DOMAIN lookup.after = {"s1"}
    /\ lookup.after["s1"].history = lookup.before["s1"].history
    /\ sessions = lookup.after

(***************************************************************************)
(* One request while its session is cleared or deleted                     *)
(***************************************************************************)

InitChatAdmin ==
    /\ sessions = <<>>
    /\ uuids = 0
    /\ now = 0
    /\ session_ttl = DefaultTtl
    /\ llm_ready \in BOOLEAN
    /\ calls = [p \in 1..MaxCalls |-> IdleCall]
    /\ lookup = [op |-> "none"]
    /\ cls = NoClassification
    /\ rag = NoRetrieval

\* the one request of the behaviour arrives; clear and delete requests for
\* its session are served at any time, also while it awaits the generator
NextChatAdmin ==
    \/ \E p \in 1..MaxCalls, query \in ChatQueries :
          ChatBeginDegraded(p, query, "s1", Healthy)
    \/ \E p \in 1..MaxCalls : Returns(p)
    \/ ClearSession("s1")
    \/ DeleteSession("s1")

SpecChatAdmin == InitChatAdmin /\ [][NextChatAdmin]_vars

\* C29: however a request, clear_session and delete_session on one session id
\* interleave, every assistant message of a stored history comes right after
\* the user message of the same request, and a session that was deleted is
\* not in the store again once the request in flight has completed.
C29_ClearAndDeleteKeepExchanges ==
    /\ \A id \in DOMAIN sessions :
          LET h == sessions[id].history
          IN \A i \in 1..Len(h) :
                h[i].role = "assistant" =>
                    /\ i > 1
                    /\ h[i - 1].role = "user"
                    /\ h[i - 1].by = h[i].by
    /\ lookup.op = "delete" /\ lookup.result = TRUE =>
          lookup.session_id \notin DOMAIN sessions

====
